---- MODULE Spec2Model ----
(***************************************************************************)
(* Subscriber ledger of the water-meter chat bot (main.py): the record     *)
(* store, the administrator store, the activity log and the per-user       *)
(* conversation sessions, with one action per branch of the text and       *)
(* callback routers.                                                       *)
(*                                                                         *)
(* Numbers.  The bot parses every amount with float().  Here a number x is *)
(* held as the integer 2*x, so that readings and amounts with a fractional *)
(* part of one half are exact (they are exact in binary floating point as  *)
(* well).  Derived fields are int(round(..)) of such numbers.              *)
(*                                                                         *)
(* Text.  A text is a sequence of one-character strings, so that the       *)
(* normalisation, the substring tests and float() can be computed.         *)
(***************************************************************************)
EXTENDS Integers, Sequences, FiniteSets, TLC

\* None, for a cell of user_data that holds a name or a text.
None == "None"

\* None, for selected_index.
NoIndex == -1

\* ---------------------------------------------------------------- numbers

\* The representation of the integer n.
Num(n) == 2 * n

\* Python's round(x) for a float x held as h = 2*x: round half to even.
PyRound(h) ==
    LET q == h \div 2
    IN  IF h % 2 = 0 THEN q
        ELSE IF q % 2 = 0 THEN q ELSE q + 1

\* int(round(x)) stored back into a numeric column.
IntRound(h) == Num(PyRound(h))

Max(a, b) == IF a >= b THEN a ELSE b

UNIT_PRICE == 700

\* ------------------------------------------------------------------- text

Digits == {"0", "1", "2", "3", "4", "5", "6", "7", "8", "9"}

DigitVal(c) ==
    CASE c = "0" -> 0 [] c = "1" -> 1 [] c = "2" -> 2 [] c = "3" -> 3
      [] c = "4" -> 4 [] c = "5" -> 5 [] c = "6" -> 6 [] c = "7" -> 7
      [] c = "8" -> 8 [] c = "9" -> 9

DigitChar(d) ==
    CASE d = 0 -> "0" [] d = 1 -> "1" [] d = 2 -> "2" [] d = 3 -> "3"
      [] d = 4 -> "4" [] d = 5 -> "5" [] d = 6 -> "6" [] d = 7 -> "7"
      [] d = 8 -> "8" [] d = 9 -> "9"

AllDigits(s) == \A i \in 1..Len(s) : s[i] \in Digits

RECURSIVE DecVal(_)
\* The value of a non-empty sequence of decimal digits.
DecVal(s) ==
    IF Len(s) = 0 THEN 0
    ELSE 10 * DecVal(SubSeq(s, 1, Len(s) - 1)) + DigitVal(s[Len(s)])

RECURSIVE DecStr(_)
\* str(n) for an integer n >= 0.
DecStr(n) ==
    IF n < 10 THEN <<DigitChar(n)>>
    ELSE DecStr(n \div 10) \o <<DigitChar(n % 10)>>

\* Characters str.strip() and str.split() treat as white space.
Blank == {" "}

RECURSIVE LStrip(_)
LStrip(s) ==
    IF Len(s) > 0 /\ s[1] \in Blank THEN LStrip(Tail(s)) ELSE s

RECURSIVE RStrip(_)
RStrip(s) ==
    IF Len(s) > 0 /\ s[Len(s)] \in Blank
    THEN RStrip(SubSeq(s, 1, Len(s) - 1)) ELSE s

\* str.strip()
Strip(s) == LStrip(RStrip(s))

\* t occurs in s as a contiguous run (Python's `t in s`).
IsSubstring(t, s) ==
    \E i \in 0..(Len(s) - Len(t)) : SubSeq(s, i + 1, i + Len(t)) = t

EndsWith(s, t) ==
    Len(s) >= Len(t) /\ SubSeq(s, Len(s) - Len(t) + 1, Len(s)) = t

\* float(text) for the texts the model feeds it: decimal digits with an
\* optional fraction of one digit 0 or 5 give a number; the literal nan gives
\* the float NaN (float() accepts it); white space around the text is
\* ignored; a text with a letter, two dots or no digit raises ValueError
\* ("err").  Fractions other than .0 and .5 are not among the model's texts.
ParseFloat(text) ==
    LET s    == Strip(text)
        dot  == {i \in 1..Len(s) : s[i] = "."}
        ip   == IF dot = {} THEN s
                ELSE SubSeq(s, 1, (CHOOSE i \in dot : TRUE) - 1)
        fp   == IF dot = {} THEN <<>>
                ELSE SubSeq(s, (CHOOSE i \in dot : TRUE) + 1, Len(s))
    IN  IF s = <<"n", "a", "n">> THEN [k |-> "nan", v |-> 0]
        ELSE IF /\ Cardinality(dot) <= 1
                /\ AllDigits(ip) /\ AllDigits(fp)
                /\ Len(ip) + Len(fp) > 0
                /\ fp \in {<<>>, <<"0">>, <<"5">>}
        THEN [k |-> "num",
              v |-> Num(DecVal(ip)) + (IF fp = <<"5">> THEN 1 ELSE 0)]
        ELSE [k |-> "err", v |-> 0]

\* ------------------------------------------------------- canonical fields

TEXT_COLS == {"name", "phone", "meterId"}

BASE_COLS ==
    <<"name", "phone", "meterId", "prevReading", "currReading", "consumption",
      "consumptionValue", "arrears", "total", "paid", "remaining">>

EDITABLE_FIELDS == {"currReading", "paid", "arrears", "phone", "name"}

Columns == {BASE_COLS[i] : i \in 1..Len(BASE_COLS)}

\* ---------------------------------------------------------- normalisation

\* Characters AR_DIAC_TABLE deletes (a diacritic and the tatweel) and the
\* two directional marks ar_norm removes, under their Unicode names.
AR_DIAC == {"SHADDA", "TATWEEL"}

DirMarks == {"RLM", "LRM"}

\* AR_MAP, followed by str.lower() on the Latin letters of the model.
AR_MAP(c) ==
    CASE c = "ALEF_HAMZA"   -> "ALEF"
      [] c = "ALEF_MAKSURA" -> "YEH"
      [] c = "TEH_MARBUTA"  -> "HEH"
      [] OTHER -> c

Lower(c) ==
    CASE c = "A" -> "a" [] c = "B" -> "b" [] OTHER -> c

RECURSIVE Squeeze(_)
\* Runs of white space become one blank.
Squeeze(s) ==
    IF Len(s) < 2 THEN s
    ELSE IF s[1] \in Blank /\ s[2] \in Blank THEN Squeeze(Tail(s))
    ELSE <<s[1]>> \o Squeeze(Tail(s))

ar_norm(s) ==
    LET kept == SelectSeq(Strip(s), LAMBDA c : c \notin AR_DIAC \cup DirMarks)
        mapd == [i \in 1..Len(kept) |-> AR_MAP(kept[i])]
        sq   == Strip(Squeeze(mapd))
    IN  [i \in 1..Len(sq) |-> Lower(sq[i])]

normalize_for_match(s) == SelectSeq(ar_norm(s), LAMBDA c : c # " ")

digits_only(s) == SelectSeq(s, LAMBDA c : c \in Digits)

strip_trailing_dot_zero(s) ==
    LET ss == Strip(s)
        f  == ParseFloat(ss)
    IN  IF EndsWith(ss, <<".", "0">>)
        THEN IF f.k = "num" THEN DecStr(f.v \div 2) ELSE ss
        ELSE ss

\* ------------------------------------------------------------ computation

\* A recomputation whose total leaves the arrears out.
recompute_rowWithoutArrears(row) ==
    LET cons     == Max(row.currReading - row.prevReading, 0)
        cons_val == cons * UNIT_PRICE
        total    == cons_val
        remain   == total - row.paid
    IN  [row EXCEPT !.consumption      = IntRound(cons),
                    !.consumptionValue = IntRound(cons_val),
                    !.total            = IntRound(total),
                    !.remaining        = IntRound(remain)]

\* A recomputation that adds to the total the row already has.
recompute_row_pricedAccumulating(row, unit_price) ==
    LET cons     == Max(row.currReading - row.prevReading, 0)
        cons_val == cons * unit_price
        total    == row.total + row.arrears + cons_val
        remain   == total - row.paid
    IN  [row EXCEPT !.consumption      = IntRound(cons),
                    !.consumptionValue = IntRound(cons_val),
                    !.total            = IntRound(total),
                    !.remaining        = IntRound(remain)]

\* A recomputation that takes the payment as settled and clears it.
recompute_row_pricedClearingPaid(row, unit_price) ==
    LET cons     == Max(row.currReading - row.prevReading, 0)
        cons_val == cons * unit_price
        total    == row.arrears + cons_val
    IN  [row EXCEPT !.consumption      = IntRound(cons),
                    !.consumptionValue = IntRound(cons_val),
                    !.total            = IntRound(total),
                    !.paid             = 0,
                    !.remaining        = IntRound(total)]

\* The body of recompute_row for a given value of the global UNIT_PRICE:
\* the four derived cells from the four authoritative ones.  The products
\* and sums are those of the unrounded consumption; each cell is rounded
\* on its own.
recompute_row_priced(row, unit_price) ==
    LET cons     == Max(row.currReading - row.prevReading, 0)
        cons_val == cons * unit_price
        total    == row.arrears + cons_val
        remain   == total - row.paid
    IN  [row EXCEPT !.consumption      = IntRound(cons),
                    !.consumptionValue = IntRound(cons_val),
                    !.total            = IntRound(total),
                    !.remaining        = IntRound(remain)]

\* recompute_row
recompute_row(row) == recompute_row_priced(row, UNIT_PRICE)

\* ------------------------------------------------------------ record store

\* The workbook holds rows 0..n-1; row idx of a frame df is df[idx + 1].
Indices(df) == 0..(Len(df) - 1)

RowAt(df, idx) == df[idx + 1]

\* load_df: the text cells stripped, and the remaining column recomputed
\* from the stored total and paid (line 95), without rounding.
load_df(file) ==
    [i \in 1..Len(file) |->
        [file[i] EXCEPT !.name      = Strip(file[i].name),
                        !.phone     = Strip(file[i].phone),
                        !.meterId   = Strip(file[i].meterId),
                        !.remaining = file[i].total - file[i].paid]]

\* ------------------------------------------------------------------ search

\* A hit only when the normalised query is the whole normalised value.
MatchHitWholeValue(v, query) ==
    normalize_for_match(Strip(query)) = normalize_for_match(v)

\* The first two rules only.
MatchHitWithoutExact(v, query) ==
    LET q_norm   == normalize_for_match(Strip(query))
        q_digits == digits_only(Strip(query))
    IN  \/ Len(q_norm) > 0 /\ IsSubstring(q_norm, normalize_for_match(v))
        \/ Len(q_digits) > 0 /\ IsSubstring(q_digits, digits_only(v))

MatchHit(v, query) ==
    LET q_raw    == Strip(query)
        q_norm   == normalize_for_match(q_raw)
        q_digits == digits_only(q_raw)
        v_norm   == normalize_for_match(v)
        v_digits == digits_only(v)
    IN  \/ Len(q_norm) > 0 /\ IsSubstring(q_norm, v_norm)
        \/ Len(q_digits) > 0 /\ IsSubstring(q_digits, v_digits)
        \/ strip_trailing_dot_zero(v) = strip_trailing_dot_zero(q_raw)

\* find_row_indices: the indices of the hits, in row order.
find_row_indices(df, field, query) ==
    IF field \notin Columns THEN <<>>
    ELSE SelectSeq([i \in 1..Len(df) |-> i - 1],
                   LAMBDA i : MatchHit(RowAt(df, i)[field], query))

\* ------------------------------------------------------------------- state

\* Chat users; each has its own context.user_data.
Users == {"u1", "u2"}

\* The account ensure_admins_exists writes, and the active_admin every
\* session falls back to (no handler ever stores another one).
ROOT_ADMIN == "root"

\* A per_field map is a function from the fields it has an entry for.
EmptyMap == [f \in {} |-> "read"]

DefaultAdmins ==
    <<[username |-> ROOT_ADMIN, pin |-> <<"1", "2", "3", "4">>,
       per_field |-> EmptyMap]>>

\* Modes
MODE_NONE == "none"
MODE_ADD_READING == "add_reading"
MODE_SEARCH_METER == "search_meter"
MODE_SEARCH_NAME == "search_name"
MODE_SEARCH_PHONE == "search_phone"
MODE_AWAIT_VALUE == "await_value"
MODE_SEARCH_PAY == "search_pay"
MODE_REPORT_DAY == "report_day"
MODE_REPORT_WAIT_START == "report_wait_start"
MODE_REPORT_WAIT_END == "report_wait_end"
MODE_REPORT_CHOOSE_FMT == "report_choose_fmt"
MODE_ADD_SUB_NAME == "add_sub_name"
MODE_ADMIN_NEW_NAME == "admin_new_name"
MODE_ADMIN_NEW_PIN == "admin_new_pin"
MODE_SUB_EDIT_SEARCH == "sub_edit_search"

AddSubModes ==
    {"add_sub_name", "add_sub_phone", "add_sub_meter", "add_sub_prev",
     "add_sub_curr", "add_sub_arrears", "add_sub_paid"}

SearchModes ==
    {MODE_ADD_READING, MODE_SEARCH_METER, MODE_SEARCH_NAME, MODE_SEARCH_PHONE,
     MODE_SEARCH_PAY, MODE_SUB_EDIT_SEARCH}

\* Modes in which text_date_router consumes the text itself.
ReportTextModes ==
    {MODE_REPORT_DAY, MODE_REPORT_WAIT_START, MODE_REPORT_WAIT_END}

VARIABLES
    file,     \* the rows of the workbook KOOLEXIL.xlsx, as save_df wrote them
    admins,   \* the "users" list of admins.json
    logs,     \* the lines of logs.csv after the header
    sess,     \* context.user_data of each user
    picks,    \* per user: the indices offered on "pick::" buttons so far
    fieldsShown,  \* per user: the columns offered on "field::" buttons so far
    matrixShown,  \* per user: the usernames whose permission matrix was sent
    reply     \* per user: the last message the bot sent to the user

vars == <<file, admins, logs, sess, picks, fieldsShown, matrixShown, reply>>

\* context.user_data before any handler wrote to it: every .get() falls
\* back to its default.
\* No "new_sub" and no "report_filter" key in user_data.
NoDraft == [absent |-> TRUE]

NoFilter == [type |-> "none"]

FreshSession ==
    [mode |-> MODE_NONE, selected_index |-> NoIndex, edit_field |-> None,
     add_field |-> None, pay_field |-> None, new_admin_name |-> None,
     new_sub |-> NoDraft, report_filter |-> NoFilter]

Txt(name, phone, meter) == [name |-> name, phone |-> phone, meterId |-> meter]

\* A row as a commit saved it: its text and authoritative cells, and the
\* derived cells recompute_row gave.
MkRow(t, prev, curr, arrears, paid) ==
    recompute_row(
        [name |-> t.name, phone |-> t.phone, meterId |-> t.meterId,
         prevReading |-> prev, currReading |-> curr,
         consumption |-> 0, consumptionValue |-> 0, arrears |-> arrears,
         total |-> 0, paid |-> paid, remaining |-> 0])

\* The workbook the bot starts on: three subscribers, the first in the
\* state of the roll-forward example (prev 10, curr 50, arrears 0, paid 30),
\* the third after a payment of one half.
SeedFile ==
    << MkRow(Txt(<<"a", "l", "i">>, <<"5", "0", "1">>, <<"1", "2">>),
             Num(10), Num(50), Num(0), Num(30)),
       MkRow(Txt(<<"a", "m", "r">>, <<"5", "0", "2">>, <<"1", "3">>),
             Num(0), Num(0), Num(0), Num(0)),
       MkRow(Txt(<<"s", "a", "m">>, <<"7", "7", ".", "0">>, <<"2", "5">>),
             Num(0), Num(20), Num(0), ParseFloat(<<"0", ".", "5">>).v) >>

\* ------------------------------------------------------------------ inputs

\* Free texts sent while a value is awaited.
ValueTexts ==
    { <<"8", "0">>, <<"0", ".", "5">>, <<"a", "b">>, <<"n", "a", "n">> }

\* Bound on the number of lines of the activity log.
MaxLog == 2

\* ----------------------------------------------------------------- helpers

SetSess(u, r) == sess' = [sess EXCEPT ![u] = r]

\* reply_text / send_message / a callback answer with a text: the last thing
\* the bot showed to user u.
Reply(u, msg) == reply' = [reply EXCEPT ![u] = msg]

\* update.effective_user.username of the sender.
ActingUser(u) == u

\* The UTC day on which the events of a behaviour take place.
Today == "2024-01-03"

\* log_event: one line appended, stamped with the day.
log_event(user_name, action, amount, meter, subscriber) ==
    logs' = Append(logs, [date |-> Today, user |-> user_name,
                          action |-> action, amount |-> amount,
                          meter |-> meter, subscriber |-> subscriber])

\* load_admins: ensure_admins_exists ran at start-up and every handler
\* writes the whole document back, so the file exists and is not of size
\* zero; what is loaded is the list as it was saved, an empty one included.
load_admins == admins

\* A default that never allows editing.
StaticDefaultReadOnly(field) == "read"

\* get_field_mode_for_user
StaticDefault(field) == IF field \in EDITABLE_FIELDS THEN "edit" ELSE "read"

get_field_mode_for_user(username, field) ==
    LET hits == {i \in 1..Len(load_admins) : load_admins[i].username = username}
    IN  IF hits = {} THEN StaticDefault(field)
        ELSE LET pf == load_admins[CHOOSE i \in hits : \A j \in hits : i <= j].per_field
             IN  IF field \in DOMAIN pf THEN pf[field]
                 ELSE StaticDefault(field)

\* active_admin of a session: never stored, so always the default.
ActiveAdmin(u) == ROOT_ADMIN

\* ------------------------------------------------------------- text router

\* The labels of the reply keyboard, and the typed fields-list command.
ModeMenu ==
    [add_reading  |-> MODE_ADD_READING, pay |-> MODE_SEARCH_PAY,
     search_meter |-> MODE_SEARCH_METER, search_name |-> MODE_SEARCH_NAME,
     search_phone |-> MODE_SEARCH_PHONE]

\* text_router, a label that opens a lookup: the mode is set whatever the
\* mode was, and the add-reading and payment labels also forget the lookup
\* field chosen before.
MenuLookup(u, labels) ==
    \E label \in labels :
        /\ sess[u].mode \notin ReportTextModes
        /\ SetSess(u, [sess[u] EXCEPT
                !.mode = ModeMenu[label],
                !.add_field = IF label = "add_reading" THEN None ELSE @,
                !.pay_field = IF label = "pay" THEN None ELSE @])
        /\ Reply(u, IF label \in {"add_reading", "pay"}
                    THEN "choose_lookup" ELSE "ask_query")
        /\ UNCHANGED <<file, admins, logs, picks, fieldsShown, matrixShown>>

\* The columns a fields keyboard offers to an administrator.
fields_inline_kb(cols, active_admin) ==
    {c \in cols : get_field_mode_for_user(active_admin, c) # "hide"}

\* text_router, the fields-list command: the keyboard is sent only when a
\* record is selected and present; the mode is left as it was in all cases.
MenuFields(u) ==
    LET idx == sess[u].selected_index
        df  == load_df(file)
    IN  /\ sess[u].mode \notin ReportTextModes
        /\ IF idx = NoIndex
           THEN Reply(u, "select_first") /\ UNCHANGED fieldsShown
           ELSE IF idx \notin Indices(df)
           THEN Reply(u, "record_missing") /\ UNCHANGED fieldsShown
           ELSE /\ Reply(u, "fields_list")
                /\ fieldsShown' = [fieldsShown EXCEPT
                        ![u] = @ \cup fields_inline_kb(Columns, ActiveAdmin(u))]
        /\ UNCHANGED <<file, admins, logs, sess, picks, matrixShown>>

\* text_router, the labels that only send an inline menu (export, add
\* subscriber, administrators): nothing is stored.
InlineMenus ==
    [export |-> "export_menu", add_subscriber |-> "sub_menu",
     admins |-> "admin_menu"]

MenuInline(u) ==
    \E label \in DOMAIN InlineMenus :
        /\ sess[u].mode \notin ReportTextModes
        /\ Reply(u, InlineMenus[label])
        /\ UNCHANGED <<file, admins, logs, sess, picks, fieldsShown, matrixShown>>

\* show_record: the selected row is recomputed and the frame saved.
show_record(u, idx) ==
    LET df == load_df(file)
    IN  file' = IF idx # NoIndex /\ idx \in Indices(df)
                THEN [df EXCEPT ![idx + 1] = recompute_row(df[idx + 1])]
                ELSE file

SearchField(u, mode) ==
    CASE mode = MODE_ADD_READING ->
            IF sess[u].add_field # None THEN sess[u].add_field ELSE "meterId"
      [] mode = MODE_SEARCH_PAY ->
            IF sess[u].pay_field # None THEN sess[u].pay_field ELSE "meterId"
      [] mode = MODE_SEARCH_METER -> "meterId"
      [] mode = MODE_SEARCH_NAME -> "name"
      [] mode = MODE_SUB_EDIT_SEARCH -> "meterId"
      [] OTHER -> "phone"

\* handle_search: no hit, several hits (the pick keyboard is sent and
\* nothing is stored), or one hit (selected; the add-reading and payment
\* lookups then await the value, any other lookup displays the record).
handle_search(u, text) ==
    LET mode == sess[u].mode
        df   == load_df(file)
        idxs == find_row_indices(df, SearchField(u, mode), text)
        i    == idxs[1]
    IN  /\ mode \in SearchModes
        /\ IF Len(idxs) = 0
           THEN /\ Reply(u, "no_match")
                /\ UNCHANGED <<file, admins, logs, sess, picks, fieldsShown, matrixShown>>
           ELSE IF Len(idxs) > 1
           THEN /\ picks' = [picks EXCEPT ![u] = @ \cup {idxs[k] : k \in 1..Len(idxs)}]
                /\ Reply(u, "pick_list")
                /\ UNCHANGED <<file, admins, logs, sess, fieldsShown, matrixShown>>
           ELSE IF mode = MODE_ADD_READING
           THEN /\ SetSess(u, [sess[u] EXCEPT !.selected_index = i,
                                   !.edit_field = "currReading",
                                   !.mode = MODE_AWAIT_VALUE])
                /\ Reply(u, "ask_reading")
                /\ UNCHANGED <<file, admins, logs, picks, fieldsShown, matrixShown>>
           ELSE IF mode = MODE_SEARCH_PAY
           THEN /\ SetSess(u, [sess[u] EXCEPT !.selected_index = i,
                                   !.edit_field = "paid",
                                   !.mode = MODE_AWAIT_VALUE])
                /\ Reply(u, "ask_paid")
                /\ UNCHANGED <<file, admins, logs, picks, fieldsShown, matrixShown>>
           ELSE /\ SetSess(u, [sess[u] EXCEPT !.selected_index = i])
                /\ show_record(u, i)
                /\ Reply(u, "record")
                /\ UNCHANGED <<admins, logs, picks, fieldsShown, matrixShown>>

Search(u, texts) ==
    \E text \in texts : handle_search(u, text)

\* ---------------------------------------------------------- value commits

\* The frame handle_value_input saves: row idx replaced, every other row
\* as load_df returned it.
SaveRowAtEnd(df, idx, row) ==
    Append(SubSeq(df, 1, idx) \o SubSeq(df, idx + 2, Len(df)),
           recompute_row(row))

SaveRowOfFirstLoad(df, idx, row) ==
    [SeedFile EXCEPT ![idx + 1] = recompute_row(row)]

SaveRow(df, idx, row) == [df EXCEPT ![idx + 1] = recompute_row(row)]

\* A roll-forward that adds the old remaining to the old arrears.
RollForwardAccumulating(row, v) ==
    [row EXCEPT !.prevReading = row.currReading,
                !.arrears     = row.arrears + row.remaining,
                !.paid        = 0,
                !.currReading = v]

RollForwardOfSelection(row, v) ==
    LET first == load_df(SeedFile)
        old   == IF \E i \in 1..Len(first) : first[i].meterId = row.meterId
                 THEN first[CHOOSE i \in 1..Len(first) :
                                first[i].meterId = row.meterId]
                 ELSE row
    IN  [row EXCEPT !.prevReading = old.currReading,
                    !.arrears     = old.remaining,
                    !.paid        = 0,
                    !.currReading = v]

RollForwardKeepingPaid(row, v) ==
    [row EXCEPT !.prevReading = row.currReading,
                !.arrears     = row.remaining,
                !.currReading = v]

\* The roll-forward of a new current reading v (lines 593-602).
RollForward(row, v) ==
    [row EXCEPT !.prevReading = row.currReading,
                !.arrears     = row.remaining,
                !.paid        = 0,
                !.currReading = v]

PayAdding(row, v) == [row EXCEPT !.paid = @ + v]

\* The payment v written into the paid column (line 609).
Pay(row, v) == [row EXCEPT !.paid = v]

\* The amount column of a log line.
Amount(f) == [k |-> f.k, v |-> f.v]

\* The end of a commit (lines 618-620): the row recomputed, the frame
\* saved, the mode reset and the confirmation sent.
Commit(u, df, idx, row) ==
    /\ file' = SaveRow(df, idx, row)
    /\ SetSess(u, [sess[u] EXCEPT !.mode = MODE_NONE])
    /\ Reply(u, "updated")

\* handle_value_input.  A text float() refuses is answered with a prompt
\* and nothing changes.  The text nan passes float(); for a reading or a
\* payment the line is logged, and int(round(nan)) then raises in
\* recompute_row, before save_df, before the mode is reset and before any
\* answer.  A previous reading is stored as text and parsed by
\* recompute_row, which raises on a text that is no number.  A derived
\* column is overwritten by recompute_row.
handle_value_input(u, text) ==
    LET idx == sess[u].selected_index
        col == sess[u].edit_field
        df  == load_df(file)
        val == Strip(text)
        f   == ParseFloat(val)
        row == RowAt(df, idx)
    IN  /\ sess[u].mode = MODE_AWAIT_VALUE
        /\ IF idx = NoIndex \/ col = None
           THEN /\ SetSess(u, [sess[u] EXCEPT !.mode = MODE_NONE])
                /\ Reply(u, "no_edit_context")
                /\ UNCHANGED <<file, admins, logs, picks, fieldsShown, matrixShown>>
           ELSE IF idx \notin Indices(df)
           THEN /\ SetSess(u, [sess[u] EXCEPT !.mode = MODE_NONE])
                /\ Reply(u, "record_missing")
                /\ UNCHANGED <<file, admins, logs, picks, fieldsShown, matrixShown>>
           ELSE IF col \in {"currReading", "paid"}
           THEN IF f.k = "err"
                THEN /\ Reply(u, "enter_number")
                     /\ UNCHANGED <<file, admins, logs, sess, picks, fieldsShown, matrixShown>>
                ELSE /\ Len(logs) < MaxLog
                     /\ log_event(ActingUser(u),
                            IF col = "paid" THEN "pay" ELSE "update_reading",
                            IF col = "paid" THEN Amount(f) ELSE Amount(ParseFloat(<<"0">>)),
                            row.meterId, row.name)
                     /\ IF f.k = "num"
                        THEN Commit(u, df, idx,
                                 IF col = "paid" THEN Pay(row, f.v)
                                 ELSE RollForward(row, f.v))
                        ELSE UNCHANGED <<file, sess, reply>>
                     /\ UNCHANGED <<admins, picks, fieldsShown, matrixShown>>
           ELSE IF col \in EDITABLE_FIELDS \ {"name", "phone"}
           THEN IF f.k = "err"
                THEN /\ Reply(u, "enter_number")
                     /\ UNCHANGED <<file, admins, logs, sess, picks, fieldsShown, matrixShown>>
                ELSE IF f.k = "num"
                THEN /\ Commit(u, df, idx, [row EXCEPT ![col] = f.v])
                     /\ UNCHANGED <<admins, logs, picks, fieldsShown, matrixShown>>
                ELSE UNCHANGED vars
           ELSE IF col \in TEXT_COLS
           THEN /\ Commit(u, df, idx, [row EXCEPT ![col] = val])
                /\ UNCHANGED <<admins, logs, picks, fieldsShown, matrixShown>>
           ELSE IF col = "prevReading"
           THEN IF f.k = "num"
                THEN /\ Commit(u, df, idx, [row EXCEPT !.prevReading = f.v])
                     /\ UNCHANGED <<admins, logs, picks, fieldsShown, matrixShown>>
                ELSE UNCHANGED vars
           ELSE /\ Commit(u, df, idx, row)
                /\ UNCHANGED <<admins, logs, picks, fieldsShown, matrixShown>>

ValueInput(u, texts) ==
    \E text \in texts : handle_value_input(u, text)

\* ------------------------------------------------------ add-subscriber flow

\* The dictionary "new_sub" right after it was created: no key yet.
EmptyDraft == [c \in {} |-> <<>>]

DraftSet(d, c, v) ==
    [x \in DOMAIN d \cup {c} |-> IF x = c THEN v ELSE d[x]]

\* The text steps and the numeric steps, with the column each one fills
\* and the mode it hands over to.
AddSubColumn ==
    [add_sub_name |-> "name", add_sub_phone |-> "phone",
     add_sub_meter |-> "meterId", add_sub_prev |-> "prevReading",
     add_sub_curr |-> "currReading", add_sub_arrears |-> "arrears",
     add_sub_paid |-> "paid"]

AddSubFollowing ==
    [add_sub_name |-> "add_sub_phone", add_sub_phone |-> "add_sub_meter",
     add_sub_meter |-> "add_sub_prev", add_sub_prev |-> "add_sub_curr",
     add_sub_curr |-> "add_sub_arrears", add_sub_arrears |-> "add_sub_paid",
     add_sub_paid |-> MODE_NONE]

AddSubTextSteps == {"add_sub_name", "add_sub_phone", "add_sub_meter"}

\* Line 328-329: the columns the draft lacks are filled in, in the draft
\* itself, with an empty text or a zero.
FillDraft(d) ==
    [c \in Columns |->
        IF c \in DOMAIN d THEN d[c]
        ELSE IF c \in TEXT_COLS THEN <<>> ELSE ParseFloat(<<"0">>)]

DraftHasNaN(d) ==
    \E c \in {"prevReading", "currReading", "arrears", "paid"} : d[c].k = "nan"

\* pd.Series(new), recomputed: the row that is appended.
DraftRow(d) ==
    recompute_row(
        [name |-> d["name"], phone |-> d["phone"], meterId |-> d["meterId"],
         prevReading |-> d["prevReading"].v, currReading |-> d["currReading"].v,
         consumption |-> d["consumption"].v,
         consumptionValue |-> d["consumptionValue"].v,
         arrears |-> d["arrears"].v, total |-> d["total"].v,
         paid |-> d["paid"].v, remaining |-> d["remaining"].v])

\* handle_add_subscriber_flow.  The draft is the dictionary of user_data,
\* changed in place; when user_data has no "new_sub" the handler fills a
\* dictionary of its own, which is lost.  A text step takes any text.  A
\* numeric step answers a text float() refuses with a prompt and changes
\* nothing; the text nan passes float(), is stored and moves the dialog
\* on.  At the last step the value is stored first; recompute_row then
\* raises on a draft that holds a nan, before save_df, before the mode is
\* reset and before any answer.
handle_add_subscriber_flow(u, text) ==
    LET mode   == sess[u].mode
        kept   == sess[u].new_sub # NoDraft
        new    == IF kept THEN sess[u].new_sub ELSE EmptyDraft
        col    == AddSubColumn[mode]
        val    == Strip(text)
        f      == ParseFloat(val)
        put(d) == IF kept THEN d ELSE NoDraft
        filled == FillDraft(DraftSet(new, col, Amount(f)))
        df     == load_df(file)
    IN  /\ mode \in AddSubModes
        /\ IF mode \in AddSubTextSteps
           THEN /\ SetSess(u, [sess[u] EXCEPT
                        !.new_sub = put(DraftSet(new, col, val)),
                        !.mode = AddSubFollowing[mode]])
                /\ Reply(u, "ask_next")
                /\ UNCHANGED <<file, admins, logs, picks, fieldsShown, matrixShown>>
           ELSE IF f.k = "err"
           THEN /\ Reply(u, "enter_number")
                /\ UNCHANGED <<file, admins, logs, sess, picks, fieldsShown, matrixShown>>
           ELSE IF mode # "add_sub_paid"
           THEN /\ SetSess(u, [sess[u] EXCEPT
                        !.new_sub = put(DraftSet(new, col, Amount(f))),
                        !.mode = AddSubFollowing[mode]])
                /\ Reply(u, "ask_next")
                /\ UNCHANGED <<file, admins, logs, picks, fieldsShown, matrixShown>>
           ELSE IF DraftHasNaN(filled)
           THEN /\ SetSess(u, [sess[u] EXCEPT !.new_sub = put(filled)])
                /\ UNCHANGED <<file, admins, logs, picks, fieldsShown, matrixShown, reply>>
           ELSE /\ file' = Append(df, DraftRow(filled))
                /\ SetSess(u, [sess[u] EXCEPT
                        !.new_sub = put(filled),
                        !.mode = AddSubFollowing[mode],
                        !.selected_index = Len(df)])
                /\ Reply(u, "subscriber_added")
                /\ UNCHANGED <<admins, logs, picks, fieldsShown, matrixShown>>

AddSubText(u, texts) ==
    \E text \in texts : handle_add_subscriber_flow(u, text)

\* ---------------------------------------------------------- callback router

LookupColumn(kind) ==
    CASE kind = "meter" -> "meterId"
      [] kind = "name"  -> "name"
      [] kind = "phone" -> "phone"
      [] OTHER -> None

\* "addread:<kind>"
CbAddRead(u, kinds) ==
    \E kind \in kinds :
        /\ SetSess(u, [sess[u] EXCEPT !.add_field = LookupColumn(kind),
                                      !.mode = MODE_ADD_READING])
        /\ Reply(u, "ask_query")
        /\ UNCHANGED <<file, admins, logs, picks, fieldsShown, matrixShown>>

\* "pay:<kind>"
CbPay(u, kinds) ==
    \E kind \in kinds :
        /\ SetSess(u, [sess[u] EXCEPT !.pay_field = LookupColumn(kind),
                                      !.mode = MODE_SEARCH_PAY])
        /\ Reply(u, "ask_query")
        /\ UNCHANGED <<file, admins, logs, picks, fieldsShown, matrixShown>>

\* The cancel buttons.  "addread:cancel", "pay:cancel", "export:cancel",
\* "admin:cancel" and "report:cancel" answer that the action is cancelled
\* and return.  "sub:cancel" and "pick:cancel" match no branch of
\* callback_router (the "sub:" branch stands after the return of
\* show_record, and "pick:cancel" does not start with "pick::"), so the
\* router falls off its end without an answer.
AnsweredCancels ==
    {"addread:cancel", "pay:cancel", "export:cancel", "admin:cancel",
     "report:cancel"}

CancelTokens == AnsweredCancels \cup {"sub:cancel", "pick:cancel"}

\* What the user sees of a callback query the router returns from without
\* answering it: the pressed button, still waiting.
Unanswered(token) ==
    CASE token = "sub:cancel"  -> "unanswered sub:cancel"
      [] token = "pick:cancel" -> "unanswered pick:cancel"
      [] token = "sub:new"     -> "unanswered sub:new"
      [] token = "sub:edit"    -> "unanswered sub:edit"
      [] token = "subedit:meter" -> "unanswered subedit:meter"
      [] OTHER -> "unanswered"

Cancel(u, token) ==
    /\ Reply(u, IF token \in AnsweredCancels THEN "cancelled" ELSE Unanswered(token))
    /\ UNCHANGED <<file, admins, logs, sess, picks, fieldsShown, matrixShown>>

CbCancel(u) ==
    \E token \in CancelTokens : Cancel(u, token)

\* A pick that selects the first index the keyboards offered, whatever
\* button was pressed.
AfterPickFirst(sn, idx, offered) ==
    LET m == sn.mode
    IN  [sn EXCEPT
            !.selected_index = CHOOSE i \in offered : \A j \in offered : i <= j,
            !.edit_field = IF m = MODE_ADD_READING THEN "currReading"
                           ELSE IF m = MODE_SEARCH_PAY THEN "paid"
                           ELSE @,
            !.mode = IF m \in {MODE_ADD_READING, MODE_SEARCH_PAY}
                     THEN MODE_AWAIT_VALUE ELSE @]

\* A pick that selects the record and leaves the dialog where it was.
AfterPickOnly(sn, idx, offered) == [sn EXCEPT !.selected_index = idx]

\* user_data after "pick::<idx>" (lines 406-417): the index is stored as it
\* came, and the add-reading and payment lookups go on to await the value.
AfterPick(sn, idx, offered) ==
    LET m == sn.mode
    IN  [sn EXCEPT
            !.selected_index = idx,
            !.edit_field = IF m = MODE_ADD_READING THEN "currReading"
                           ELSE IF m = MODE_SEARCH_PAY THEN "paid"
                           ELSE @,
            !.mode = IF m \in {MODE_ADD_READING, MODE_SEARCH_PAY}
                     THEN MODE_AWAIT_VALUE ELSE @]

\* "pick::<idx>": nothing is saved.
Pick(u, idx) ==
    LET m == sess[u].mode
    IN  /\ SetSess(u, AfterPick(sess[u], idx, picks[u]))
        /\ fieldsShown' =
              IF m = MODE_SUB_EDIT_SEARCH
              THEN [fieldsShown EXCEPT ![u] = @ \cup fields_inline_kb(Columns, ActiveAdmin(u))]
              ELSE fieldsShown
        /\ Reply(u, CASE m = MODE_SUB_EDIT_SEARCH -> "fields_list"
                      [] m = MODE_ADD_READING -> "ask_reading"
                      [] m = MODE_SEARCH_PAY -> "ask_paid"
                      [] OTHER -> "record")
        /\ UNCHANGED <<file, admins, logs, picks, matrixShown>>

\* "pick::<idx>", for an index a pick keyboard offered.
CbPick(u) ==
    \E idx \in picks[u] : Pick(u, idx)

\* "field::<col>", for a column a fields keyboard offered: a hidden column
\* is refused, a read-only one displayed (when a record is selected), and an
\* editable one is opened for input whether or not a record is selected.
CbField(u, cols) ==
    \E col \in fieldsShown[u] \cap cols :
        LET modev == get_field_mode_for_user(ActiveAdmin(u), col)
        IN  IF modev = "hide"
            THEN /\ Reply(u, "field_hidden")
                 /\ UNCHANGED <<file, admins, logs, sess, picks, fieldsShown, matrixShown>>
            ELSE IF modev = "read"
            THEN /\ reply' = IF sess[u].selected_index = NoIndex THEN reply
                             ELSE [reply EXCEPT ![u] = "value_shown"]
                 /\ UNCHANGED <<file, admins, logs, sess, picks, fieldsShown, matrixShown>>
            ELSE /\ SetSess(u, [sess[u] EXCEPT !.edit_field = col,
                                               !.mode = MODE_AWAIT_VALUE])
                 /\ Reply(u, "ask_value")
                 /\ UNCHANGED <<file, admins, logs, picks, fieldsShown, matrixShown>>

\* ------------------------------------------------------------ administrators

get_admin_names == {load_admins[i].username : i \in 1..Len(load_admins)}

\* Usernames typed in the add-administrator dialog.
AdminNameTexts == {ROOT_ADMIN, "bob"}

PinText == <<"9">>

\* "admin:add"
CbAdminAdd(u) ==
    /\ SetSess(u, [sess[u] EXCEPT !.mode = MODE_ADMIN_NEW_NAME])
    /\ Reply(u, "ask_admin_name")
    /\ UNCHANGED <<file, admins, logs, picks, fieldsShown, matrixShown>>

\* "admin:edit", "admin:del", "admin:schedule" and "back_menu" send a
\* keyboard or a text; "noop" matches no branch.  Nothing is stored.
CbInline(u) ==
    \E answered \in BOOLEAN :
        /\ Reply(u, IF answered THEN "inline_menu" ELSE Unanswered("noop"))
        /\ UNCHANGED <<file, admins, logs, sess, picks, fieldsShown, matrixShown>>

\* The buttons of the add-subscriber menu and of its lookup menu.  The
\* branches written for them (lines 350-379) stand inside show_record,
\* after its return statement; callback_router has no branch for a token
\* that starts with "sub:" or "subedit:" and falls off its end.
SubTokens == {"sub:new", "sub:edit", "subedit:meter"}

Sub(u, token) ==
    /\ Reply(u, Unanswered(token))
    /\ UNCHANGED <<file, admins, logs, sess, picks, fieldsShown, matrixShown>>

CbSub(u) ==
    \E token \in SubTokens : Sub(u, token)

\* text_router in mode admin_new_name
TextAdminName(u) ==
    \E name \in AdminNameTexts :
        /\ sess[u].mode = MODE_ADMIN_NEW_NAME
        /\ SetSess(u, [sess[u] EXCEPT !.new_admin_name = name,
                                      !.mode = MODE_ADMIN_NEW_PIN])
        /\ Reply(u, "ask_pin")
        /\ UNCHANGED <<file, admins, logs, picks, fieldsShown, matrixShown>>

\* A commit that appends the account whatever the store holds.
TextAdminPinUnchecked(u) ==
    /\ sess[u].mode = MODE_ADMIN_NEW_PIN
    /\ admins' = Append(admins, [username |-> sess[u].new_admin_name,
                                 pin |-> PinText, per_field |-> EmptyMap])
    /\ SetSess(u, [sess[u] EXCEPT !.mode = MODE_NONE])
    /\ Reply(u, "admin_added")
    /\ UNCHANGED <<file, logs, picks, fieldsShown, matrixShown>>

\* text_router in mode admin_new_pin
TextAdminPin(u) ==
    LET name == sess[u].new_admin_name
    IN  /\ sess[u].mode = MODE_ADMIN_NEW_PIN
        /\ admins' = IF name \in get_admin_names THEN admins
                     ELSE Append(admins, [username |-> name, pin |-> PinText,
                                          per_field |-> EmptyMap])
        /\ SetSess(u, [sess[u] EXCEPT !.mode = MODE_NONE])
        /\ Reply(u, IF name \in get_admin_names THEN "admin_exists" ELSE "admin_added")
        /\ UNCHANGED <<file, logs, picks, fieldsShown, matrixShown>>

\* "adminpick:<username>", for a name the list of "admin:edit" shows
CbAdminPick(u) ==
    \E n \in get_admin_names :
        /\ matrixShown' = [matrixShown EXCEPT ![u] = @ \cup {n}]
        /\ Reply(u, "perm_matrix")
        /\ UNCHANGED <<file, admins, logs, sess, picks, fieldsShown>>

PermModes == {"read", "edit", "hide"}

SetEntry(pf, field, modev) ==
    [f \in DOMAIN pf \cup {field} |-> IF f = field THEN modev ELSE pf[f]]

\* "perms:<username>:<field>:<mode>", for a matrix that was sent: the entry
\* of the first account of that name is set; when there is no such
\* account, one is appended with the PIN 1234.
CbPerms(u, fields, modes) ==
    \E n \in matrixShown[u], field \in fields, modev \in modes :
        LET hits == {i \in 1..Len(admins) : admins[i].username = n}
            i0   == CHOOSE i \in hits : \A j \in hits : i <= j
        IN  /\ admins' =
                  IF hits # {}
                  THEN [admins EXCEPT ![i0].per_field = SetEntry(@, field, modev)]
                  ELSE Append(admins, [username |-> n, pin |-> <<"1", "2", "3", "4">>,
                                       per_field |-> SetEntry(EmptyMap, field, modev)])
            /\ Reply(u, "saved")
            /\ UNCHANGED <<file, logs, sess, picks, fieldsShown, matrixShown>>

\* "admindel:<username>", for a name the list of "admin:del" shows
CbAdminDel(u) ==
    \E n \in get_admin_names :
        /\ admins' = SelectSeq(admins, LAMBDA a : a.username # n)
        /\ Reply(u, "admin_deleted")
        /\ UNCHANGED <<file, logs, sess, picks, fieldsShown, matrixShown>>

\* ------------------------------------------------------------------ reports

\* Texts sent while a report date is awaited: two days, and the label of
\* the payment button of the main keyboard (a text message is the key of
\* ModeMenu when it is a label), which is no date.
DateTexts == {"2024-01-01", "2024-01-02", "pay"}

\* pd.to_datetime(text).date() as a day number, for the texts of the
\* model; 0 stands for the exception a text that is no date raises.
ParseDate(text) ==
    CASE text = "2024-01-01" -> 1
      [] text = "2024-01-02" -> 2
      [] text = "2024-01-03" -> 3
      [] OTHER -> 0

\* The number of fields pd.read_csv finds on a line of logs.csv: log_event
\* writes the six values between commas without quoting, so every comma
\* of the meter number or of the subscriber's name starts a field.
LineFields(e) ==
    6 + Len(SelectSeq(e.meter, LAMBDA c : c = ","))
      + Len(SelectSeq(e.subscriber, LAMBDA c : c = ","))

\* pd.read_csv on the lines: a line with more fields than the line before
\* it raises ParserError; a first line with more fields than the header
\* makes the first column the index and moves every value one column to
\* the left.
read_csv(lines) ==
    IF \E k \in 2..Len(lines) : LineFields(lines[k]) > LineFields(lines[k - 1])
    THEN "error"
    ELSE IF LineFields(lines[1]) > 6 THEN "shifted" ELSE "ok"

RECURSIVE SumAmounts(_, _)
\* The sum of the amount column over the lines idxs; a cell that is not a
\* number counts as 0 (to_numeric, fillna).
SumAmounts(lines, idxs) ==
    IF idxs = {} THEN 0
    ELSE LET i == CHOOSE j \in idxs : TRUE
         IN  (IF lines[i].amount.k = "num" THEN lines[i].amount.v ELSE 0)
             + SumAmounts(lines, idxs \ {i})

\* generate_and_send_report, up to the document it sends: the notice that
\* there is no log, the exception of read_csv, a report from misplaced
\* columns, the notice of a date that cannot be read, the notice that the
\* period has no data, or the summary per user.
generate_and_send_report(lines, filt) ==
    LET day   == IF filt.type = "day" THEN ParseDate(filt.day) ELSE 1
        start == IF filt.type = "range" THEN ParseDate(filt.start) ELSE 1
        end   == IF filt.type = "range" THEN ParseDate(filt.end) ELSE 1
        kept  == {i \in 1..Len(lines) :
                    CASE filt.type = "day" -> ParseDate(lines[i].date) = day
                      [] filt.type = "range" ->
                            /\ start <= ParseDate(lines[i].date)
                            /\ ParseDate(lines[i].date) <= end
                      [] OTHER -> TRUE}
        users == {lines[i].user : i \in kept}
    IN  IF lines = <<>> THEN [k |-> "no_log"]
        ELSE IF read_csv(lines) = "error" THEN [k |-> "raised"]
        ELSE IF read_csv(lines) = "shifted" THEN [k |-> "misaligned"]
        ELSE IF day = 0 \/ start = 0 \/ end = 0 THEN [k |-> "date_error"]
        ELSE IF kept = {} THEN [k |-> "no_data"]
        ELSE [k |-> "report",
              summary |->
                 [w \in users |->
                    LET mine == {i \in kept : lines[i].user = w}
                    IN  [count |-> Cardinality(mine),
                         total |-> SumAmounts(lines, mine)]]]

\* "report:day", "report:range", "report:all"
CbReport(u) ==
    \E kind \in {"day", "range", "all"} :
        /\ SetSess(u, [sess[u] EXCEPT
                !.mode = CASE kind = "day" -> MODE_REPORT_DAY
                           [] kind = "range" -> MODE_REPORT_WAIT_START
                           [] OTHER -> MODE_REPORT_CHOOSE_FMT,
                !.report_filter = IF kind = "all" THEN [type |-> "all"] ELSE @])
        /\ Reply(u, IF kind = "all" THEN "choose_format" ELSE "ask_date")
        /\ UNCHANGED <<file, admins, logs, picks, fieldsShown, matrixShown>>

\* text_date_router in the three date modes: the text is taken as the
\* date, whatever it is, before text_router sees it.
text_date_router(u, text) ==
    LET m == sess[u].mode
    IN  /\ m \in ReportTextModes
        /\ SetSess(u, [sess[u] EXCEPT
                !.report_filter =
                    CASE m = MODE_REPORT_DAY -> [type |-> "day", day |-> text]
                      [] m = MODE_REPORT_WAIT_START -> [type |-> "range", start |-> text]
                      [] OTHER -> [type |-> "range", start |-> @.start, end |-> text],
                !.mode = IF m = MODE_REPORT_WAIT_START
                         THEN MODE_REPORT_WAIT_END ELSE MODE_REPORT_CHOOSE_FMT])
        /\ Reply(u, IF m = MODE_REPORT_WAIT_START THEN "ask_date" ELSE "choose_format")
        /\ UNCHANGED <<file, admins, logs, picks, fieldsShown, matrixShown>>

TextReportDate(u) ==
    \E text \in DateTexts : text_date_router(u, text)

\* "reportfmt:<fmt>": the query is answered, the report or a notice is sent
\* and the mode reset; when read_csv raises, the mode is not reset.  The
\* button of an earlier prompt can be pressed while a range has no end
\* yet: the end is then pd.NaT, and the comparison with it either selects
\* no line or raises and is answered as a date that cannot be read.
CbReportFmt(u) ==
    LET filt == sess[u].report_filter
        open == filt.type = "range" /\ "end" \notin DOMAIN filt
        out  == generate_and_send_report(logs,
                    IF open THEN [type |-> "all"] ELSE filt)
    IN  \E k \in IF open /\ out.k \in {"report", "no_data"}
                  THEN {"no_data", "date_error"} ELSE {out.k} :
            /\ SetSess(u, [sess[u] EXCEPT
                    !.mode = IF k = "raised" THEN @ ELSE MODE_NONE])
            /\ Reply(u, IF k = "raised" THEN "generating" ELSE k)
            /\ UNCHANGED <<file, admins, logs, picks, fieldsShown, matrixShown>>

\* "export:excel", "export:pdf": the file is sent and the export logged.
CbExport(u) ==
    \E kind \in {"export_excel", "export_pdf"} :
        /\ Len(logs) < MaxLog
        /\ log_event(ActingUser(u), kind, Amount(ParseFloat(<<"0">>)), <<>>, <<>>)
        /\ Reply(u, "file_sent")
        /\ UNCHANGED <<file, admins, sess, picks, fieldsShown, matrixShown>>

\* text_router, a free text in a mode that awaits none: the menu prompt.
TextOther(u) ==
    /\ sess[u].mode \notin ReportTextModes \cup SearchModes \cup AddSubModes
          \cup {MODE_AWAIT_VALUE, MODE_ADMIN_NEW_NAME, MODE_ADMIN_NEW_PIN}
    /\ Reply(u, "choose_from_menu")
    /\ UNCHANGED <<file, admins, logs, sess, picks, fieldsShown, matrixShown>>

\* ---------------------------------------------------------- specifications

InitSessions ==
    /\ logs = <<>>
    /\ sess = [u \in Users |-> FreshSession]
    /\ picks = [u \in Users |-> {}]
    /\ fieldsShown = [u \in Users |-> {}]
    /\ matrixShown = [u \in Users |-> {}]
    /\ reply = [u \in Users |-> "none"]

\* Spec, the ledger: one user looks a subscriber up by meter number (for a
\* reading, for a payment or for display), opens fields from the fields
\* list, and sends values.  The administrators file is the one an earlier
\* run left with the previous reading opened for editing, so that all four
\* authoritative numbers can be edited.
LedgerAdmins ==
    <<[username |-> ROOT_ADMIN, pin |-> <<"1", "2", "3", "4">>,
       per_field |-> SetEntry(EmptyMap, "prevReading", "edit")]>>

LedgerLabels == {"add_reading", "pay", "search_meter"}

LedgerQueries == { <<"1", "2">>, <<"9">> }

LedgerFields == {"arrears", "prevReading"}

Init ==
    /\ file = SeedFile
    /\ admins = LedgerAdmins
    /\ InitSessions

Next ==
    \E u \in {"u1"} :
        \/ MenuLookup(u, LedgerLabels)
        \/ MenuFields(u)
        \/ Search(u, LedgerQueries)
        \/ ValueInput(u, ValueTexts)
        \/ CbField(u, LedgerFields)

Spec == Init /\ [][Next]_vars

\* SpecDialog, the conversation: one user walks every lookup dialog and the
\* cancel, pick and fields keyboards under the default administrators
\* file; no value is sent, so the workbook keeps its rows.
DialogQueries == { <<"1">>, <<"1", "2">>, <<"a">>, <<"9">> }

DialogFields == {"currReading", "arrears", "total"}

InitDialog ==
    /\ file = SeedFile
    /\ admins = DefaultAdmins
    /\ InitSessions

NextDialog ==
    \E u \in {"u1"} :
        \/ MenuLookup(u, DOMAIN ModeMenu)
        \/ MenuFields(u)
        \/ Search(u, DialogQueries)
        \/ CbAddRead(u, {"meter", "name"})
        \/ CbPay(u, {"meter", "name"})
        \/ CbCancel(u)
        \/ CbPick(u)
        \/ CbField(u, DialogFields)

SpecDialog == InitDialog /\ [][NextDialog]_vars

\* SpecPolicy, the permissions: one user sets entries of the permission
\* matrix and walks the add-reading and payment lookups and the fields
\* keyboard.
PolicyQueries == { <<"1">>, <<"1", "2">> }

PolicyFields == {"currReading", "total"}

NextPolicy ==
    \E u \in {"u1"} :
        \/ MenuLookup(u, {"add_reading", "pay"})
        \/ MenuFields(u)
        \/ Search(u, PolicyQueries)
        \/ CbPick(u)
        \/ CbField(u, PolicyFields)
        \/ CbAdminPick(u)
        \/ CbPerms(u, PolicyFields, PermModes)

SpecPolicy == InitDialog /\ [][NextPolicy]_vars

\* The add-subscriber dialog, from the state the "new subscriber" button is
\* written to leave (lines 356-359): the first step, with a draft that has
\* no key yet, on an empty workbook or on the workbook of three.
InitAddSub ==
    /\ file \in {<<>>, SeedFile}
    /\ admins = DefaultAdmins
    /\ logs = <<>>
    /\ sess = [u \in Users |->
                 IF u = "u1"
                 THEN [FreshSession EXCEPT !.mode = MODE_ADD_SUB_NAME,
                                           !.new_sub = EmptyDraft]
                 ELSE FreshSession]
    /\ picks = [u \in Users |-> {}]
    /\ fieldsShown = [u \in Users |-> {}]
    /\ matrixShown = [u \in Users |-> {}]
    /\ reply = [u \in Users |-> "none"]

NextAddSub ==
    \E u \in {"u1"} : AddSubText(u, ValueTexts)

SpecAddSub == InitAddSub /\ [][NextAddSub]_vars

\* The menus of the main keyboard and the buttons under them.
NextMenu ==
    \E u \in Users :
        \/ MenuLookup(u, DOMAIN ModeMenu)
        \/ MenuInline(u)
        \/ CbInline(u)
        \/ CbSub(u)
        \/ TextOther(u)

SpecMenu == InitDialog /\ [][NextMenu]_vars

\* The administrator store under two sessions: both run the
\* add-administrator dialog and delete accounts, the first one also opens
\* permission matrices and presses their buttons.
NextAdmin ==
    \/ \E u \in Users :
          \/ CbAdminAdd(u)
          \/ TextAdminName(u)
          \/ TextAdminPin(u)
          \/ CbAdminDel(u)
    \/ \E u \in {"u1"} :
          \/ CbAdminPick(u)
          \/ CbPerms(u, {"currReading"}, PermModes)

SpecAdmin == InitDialog /\ [][NextAdmin]_vars

\* recompute_row on its own: a workbook of one row whose cells are drawn
\* from bounded sets (readings 0, 0.5, 1.5 and 10, amounts 0, 0.5 and 60,
\* derived cells 0 or a stale 7), recomputed when the record is displayed.
UnitPrices == {0, 1, UNIT_PRICE}

RawRows ==
    {[name |-> <<"a", "l", "i">>, phone |-> <<"5", "0", "1">>,
      meterId |-> <<"1", "2">>,
      prevReading |-> prev, currReading |-> curr, consumption |-> stale,
      consumptionValue |-> stale, arrears |-> arrears, total |-> stale,
      paid |-> paid, remaining |-> stale] :
        prev \in {0, 1, 3, Num(10)}, curr \in {0, 1, 3, Num(10)},
        arrears \in {0, 1, Num(60)}, paid \in {0, 1, Num(60)},
        stale \in {0, Num(7)}}

InitRecompute ==
    /\ file \in {<<r>> : r \in RawRows}
    /\ admins = DefaultAdmins
    /\ InitSessions

NextRecompute ==
    \E u \in {"u1"} :
        \/ MenuLookup(u, {"search_meter"})
        \/ Search(u, {<<"1", "2">>})

SpecRecompute == InitRecompute /\ [][NextRecompute]_vars

\* find_row_indices on its own: a workbook of two rows whose text cells
\* are drawn from a set of values (a phone number read as a float, meter
\* numbers, a name with an upper-case letter, a blank, a hamza and a
\* diacritic), looked up by meter number or by name.
MatchValues ==
    { <<"5", "0", "1", "2", "3", "4", "5", "6", "7", ".", "0">>,
      <<"1", "2">>, <<"7">>,
      <<"A", " ", "ALEF_HAMZA", "SHADDA", "b">> }

MatchQueries ==
    { <<"0", "5", "0", "1", "2", "3", "4", "5", "6", "7">>,
      <<"0", "7", ".", "0">>, <<"TATWEEL">>, <<"ALEF", "b">>, <<"1", "2">> }

InitMatch ==
    /\ file \in {<< MkRow(Txt(v, v, v), 0, 0, 0, 0),
                    MkRow(Txt(w, w, w), 0, 0, 0, 0) >> :
                     v \in MatchValues, w \in MatchValues}
    /\ admins = DefaultAdmins
    /\ InitSessions

NextMatch ==
    \E u \in {"u1"} :
        \/ MenuLookup(u, {"search_meter", "search_name"})
        \/ Search(u, MatchQueries)

SpecMatch == InitMatch /\ [][NextMatch]_vars

\* The report on its own: a log of up to two lines of earlier days and of
\* today, by either user, for a subscriber whose name has a comma or has
\* none, and the report dialog on it, with the payment button of the main
\* keyboard pressed at any point.
LogLines ==
    {[date |-> d, user |-> w, action |-> a.action, amount |-> a.amount,
      meter |-> <<"1", "2">>, subscriber |-> n] :
        d \in {"2024-01-01", "2024-01-02", Today}, w \in Users,
        a \in {[action |-> "pay", amount |-> ParseFloat(<<"8", "0">>)],
               [action |-> "update_reading", amount |-> ParseFloat(<<"0">>)]},
        n \in {<<"a", "l", "i">>, <<"a", ",", "b">>}}

InitReport ==
    /\ file = SeedFile
    /\ admins = DefaultAdmins
    /\ sess = [u \in Users |-> FreshSession]
    /\ picks = [u \in Users |-> {}]
    /\ fieldsShown = [u \in Users |-> {}]
    /\ matrixShown = [u \in Users |-> {}]
    /\ reply = [u \in Users |-> "none"]
    /\ logs \in {<<>>} \cup {<<e>> : e \in LogLines}
                 \cup {<<e, g>> : e \in {x \in LogLines : x.user = "u1"},
                                  g \in {x \in LogLines : x.action = "pay"}}
    /\ \A i, j \in 1..Len(logs) :
          i <= j => ParseDate(logs[i].date) <= ParseDate(logs[j].date)

NextReport ==
    \E u \in {"u1"} :
        \/ CbReport(u)
        \/ TextReportDate(u)
        \/ CbReportFmt(u)
        \/ MenuLookup(u, {"pay"})

SpecReport == InitReport /\ [][NextReport]_vars

\* Two users at once, in any interleaving of their updates: the first
\* looks meter 12 up for a reading and sends 80; the second looks a meter
\* up for a reading or for a payment, by a number that one meter or two
\* meters have, picks one of the two, and sends 60.  The
\* second user is either idle or at the last step of the add-subscriber
\* dialog (the state lines 356-359 are written to produce), with the draft
\* of a fourth subscriber.
TwoTexts == [u1 |-> { <<"8", "0">> }, u2 |-> { <<"6", "0">> }]

TwoLabels == [u1 |-> {"add_reading"}, u2 |-> {"add_reading", "pay"}]

TwoQueries ==
    [u1 |-> { <<"1", "2">> }, u2 |-> { <<"1", "3">>, <<"1">> }]

InitTwo ==
    /\ file = SeedFile
    /\ admins = DefaultAdmins
    /\ logs = <<>>
    /\ sess \in {[u \in Users |->
                    IF u = "u2" THEN s2 ELSE FreshSession] :
                 s2 \in {FreshSession,
                         [FreshSession EXCEPT
                            !.mode = "add_sub_paid",
                            !.new_sub =
                               [name |-> <<"z", "e", "d">>,
                                phone |-> <<"5", "0", "3">>,
                                meterId |-> <<"3", "1">>,
                                prevReading |-> ParseFloat(<<"0">>),
                                currReading |-> ParseFloat(<<"6", "0">>),
                                arrears |-> ParseFloat(<<"0">>)]]}}
    /\ picks = [u \in Users |-> {}]
    /\ fieldsShown = [u \in Users |-> {}]
    /\ matrixShown = [u \in Users |-> {}]
    /\ reply = [u \in Users |-> "none"]

NextTwo ==
    \E u \in Users :
        \/ MenuLookup(u, TwoLabels[u])
        \/ Search(u, TwoQueries[u])
        \/ CbPick(u)
        \/ ValueInput(u, TwoTexts[u])
        \/ AddSubText(u, TwoTexts[u])

SpecTwo == InitTwo /\ [][NextTwo]_vars

\* ------------------------------------------------------------------ claims

\* The record store as the handlers read it.
Store == load_df(file)

StoreAfter == load_df(file')

\* User u awaits a value for column col of a record that is present.
Awaiting(u, col) ==
    /\ sess[u].mode = MODE_AWAIT_VALUE
    /\ sess[u].edit_field = col
    /\ sess[u].selected_index \in Indices(Store)

\* C1: a numeric value v sent while a new current reading is awaited for a
\* record with values (prev0, curr0, arrears0, paid0, remaining0) leaves the
\* record with previous reading curr0, arrears remaining0 (replaced, not
\* accumulated), paid 0 and current reading v, and the derived fields
\* computed from these four.
C1_RollForward ==
    [][\A u \in Users, t \in ValueTexts :
          (/\ Awaiting(u, "currReading")
           /\ ParseFloat(t).k = "num"
           /\ handle_value_input(u, t))
          => LET r0   == RowAt(Store, sess[u].selected_index)
                 r1   == RowAt(StoreAfter, sess[u].selected_index)
                 v    == ParseFloat(t).v
                 cons == Max(v - r0.currReading, 0)
             IN  /\ r1.prevReading = r0.currReading
                 /\ r1.arrears = r0.remaining
                 /\ r1.paid = 0
                 /\ r1.currReading = v
                 /\ r1.consumption = IntRound(cons)
                 /\ r1.consumptionValue = IntRound(cons * UNIT_PRICE)
                 /\ r1.total = IntRound(r0.remaining + cons * UNIT_PRICE)
                 /\ r1.remaining = r1.total]_vars

\* The example of the roll-forward: the record (prev 10, curr 50, arrears 0,
\* paid 30) after the reading 80 was committed.
C1_Witness ==
    LET r == RowAt(Store, 0)
    IN  /\ Len(logs) > 0 /\ logs[Len(logs)].action = "update_reading"
        /\ r.name = <<"a", "l", "i">>
        /\ r.prevReading = Num(50) /\ r.currReading = Num(80)
        /\ r.arrears = Num(27970) /\ r.paid = 0
        /\ r.consumption = Num(30) /\ r.consumptionValue = Num(21000)
        /\ r.total = Num(48970) /\ r.remaining = Num(48970)

C3_AwaitOnlyWhenEditable ==
    [][\A u \in Users :
          (/\ sess'[u].mode = MODE_AWAIT_VALUE
           /\ \/ sess[u].mode # MODE_AWAIT_VALUE
              \/ sess'[u].edit_field # sess[u].edit_field)
          => get_field_mode_for_user(ActiveAdmin(u), sess'[u].edit_field) = "edit"]_vars

\* The add-reading lookup has just opened the current reading for input
\* while the policy hides it from the active administrator.
C3_Witness ==
    /\ sess["u1"].mode = MODE_AWAIT_VALUE
    /\ sess["u1"].edit_field = "currReading"
    /\ reply["u1"] = "ask_reading"
    /\ get_field_mode_for_user(ActiveAdmin("u1"), "currReading") = "hide"

\* C4 as stated: after a cancel button was answered the session is in
\* the neutral mode and holds no draft of a subscriber or an administrator.
C4_CancelResets ==
    \A u \in Users :
        reply[u] = "cancelled"
        => /\ sess[u].mode = MODE_NONE
           /\ sess[u].new_sub = NoDraft
           /\ sess[u].new_admin_name = None

\* A cancel button was answered and the add-reading lookup is still open.
C4_Witness ==
    /\ reply["u1"] = "cancelled"
    /\ sess["u1"].mode = MODE_ADD_READING

\* C5 as stated: in the state a completed dialog results in (the single
\* match displayed, the value committed, the administrator added, the
\* report delivered) the mode is the neutral one.
C5_CompletionResets ==
    \A u \in Users :
        reply[u] \in {"record", "updated", "admin_added", "report"}
        => sess[u].mode = MODE_NONE

\* The single match of a lookup by meter number is displayed and the
\* lookup is still open.
C5_Witness ==
    /\ reply["u1"] = "record"
    /\ sess["u1"].selected_index = 0
    /\ sess["u1"].mode = MODE_SEARCH_METER

\* The columns C6 names.
NumericFields == {"prevReading", "currReading", "arrears", "paid"}

\* C6 as stated: a text that is no number, sent while a value is awaited
\* for a numeric field, changes neither the store, nor the activity log,
\* nor the session.
C6_NonNumericRejected ==
    [][\A u \in Users, t \in ValueTexts, f \in NumericFields :
          (/\ Awaiting(u, f)
           /\ ParseFloat(t).k # "num"
           /\ handle_value_input(u, t))
          => UNCHANGED <<file, logs, sess>>]_vars

\* A reading is logged although no value was committed: the store is the
\* one the bot started on and the value is still awaited.
C6_Witness ==
    /\ Len(logs) = 1 /\ logs[1].action = "update_reading"
    /\ Store = load_df(SeedFile)
    /\ Awaiting("u1", "currReading")

\* What a lookup answers.
LookupOutcomes == {"no_match", "pick_list", "ask_reading", "ask_paid", "record"}

\* C7 as stated: once a lookup has answered with the pick keyboard, a
\* further free text runs no lookup, selects nothing and opens no field.
C7_SelectionPending ==
    [][\A u \in Users, t \in DialogQueries :
          (reply[u] = "pick_list" /\ handle_search(u, t))
          => /\ sess'[u].mode # MODE_AWAIT_VALUE
             /\ sess'[u].selected_index = sess[u].selected_index
             /\ picks'[u] = picks[u]
             /\ reply'[u] \notin LookupOutcomes \ {"pick_list"}]_vars

\* C8: a pick of index i in the add-reading (payment) lookup leaves the
\* session awaiting the current reading (the paid amount) of record i, and
\* the workbook as it was.
C8_PickRoundTrip ==
    [][\A u \in Users, i \in Indices(Store) :
          (/\ i \in picks[u]
           /\ sess[u].mode \in {MODE_ADD_READING, MODE_SEARCH_PAY}
           /\ Pick(u, i))
          => /\ sess'[u].mode = MODE_AWAIT_VALUE
             /\ sess'[u].edit_field =
                    (IF sess[u].mode = MODE_ADD_READING THEN "currReading" ELSE "paid")
             /\ sess'[u].selected_index = i
             /\ file' = file]_vars

\* The payment lookup by name matched all three subscribers and the third
\* was picked.
C8_Witness ==
    /\ sess["u1"].mode = MODE_AWAIT_VALUE
    /\ sess["u1"].edit_field = "paid"
    /\ sess["u1"].selected_index = 2
    /\ reply["u1"] = "ask_paid"

C10_MissingIndexResets ==
    \A u \in Users :
        reply[u] \in {"select_first", "record_missing", "no_edit_context"}
        => sess[u].mode = MODE_NONE

\* The fields list was asked for with no record selected, and the lookup
\* by meter number is still open.
C10_Witness ==
    /\ reply["u1"] = "select_first"
    /\ sess["u1"].selected_index = NoIndex
    /\ sess["u1"].mode = MODE_SEARCH_METER

C13_NewSubscriberOpensDialog ==
    [][\A u \in Users :
          (/\ sess[u].mode = MODE_NONE
           /\ reply[u] = InlineMenus["add_subscriber"]
           /\ Sub(u, "sub:new"))
          => /\ sess'[u].mode = MODE_ADD_SUB_NAME
             /\ sess'[u].new_sub = EmptyDraft]_vars

\* The button was pressed and was not answered; the session is as before.
C13_Witness ==
    /\ reply["u1"] = Unanswered("sub:new")
    /\ sess["u1"] = FreshSession

\* C14: for every name and every field, the resolved mode is the explicit
\* entry of the account of that name when there is one, and otherwise (no
\* entry, or no account of that name) edit for currReading, paid, arrears,
\* phone and name and read for every other field; hide is resolved only
\* from an explicit entry.
C14_Resolve ==
    \A name \in AdminNameTexts, field \in Columns :
        LET accts == {i \in 1..Len(admins) : admins[i].username = name}
            entry == \E i \in accts : field \in DOMAIN admins[i].per_field
            mode  == get_field_mode_for_user(name, field)
        IN  /\ entry => \E i \in accts : mode = admins[i].per_field[field]
            /\ ~entry =>
                 mode = IF field \in {"currReading", "paid", "arrears",
                                      "phone", "name"}
                        THEN "edit" ELSE "read"
            /\ mode = "hide" => entry

\* The first account has an explicit entry that hides an editable field,
\* and no account is named bob.
C14_Witness ==
    /\ Len(admins) = 1
    /\ "currReading" \in DOMAIN admins[1].per_field
    /\ admins[1].per_field["currReading"] = "hide"
    /\ get_field_mode_for_user(admins[1].username, "currReading") = "hide"
    /\ get_field_mode_for_user("bob", "currReading") = "edit"
    /\ get_field_mode_for_user("bob", "total") = "read"

\* C15: in every reachable state no two accounts of the administrator
\* store have the same username, and the commit of an add-administrator
\* dialog whose pending name has an account leaves the store unchanged.
C15_UniqueUsernames ==
    /\ [](\A i, j \in 1..Len(admins) :
             admins[i].username = admins[j].username => i = j)
    /\ [][\A u \in Users :
             (/\ sess[u].new_admin_name \in get_admin_names
              /\ TextAdminPin(u))
             => admins' = admins]_vars

\* Both sessions ran the dialog for the name bob: the first commit added
\* the account and the second was turned down.
C15_Witness ==
    /\ reply["u1"] = "admin_added"
    /\ reply["u2"] = "admin_exists"
    /\ sess["u2"].new_admin_name = "bob"
    /\ Len(admins) = 2

\* C16 as stated: a load of the administrator store that holds no account
\* yields exactly the default account, so that every load yields at least
\* one account.
C16_LoadNeverEmpty ==
    /\ admins = <<>> => load_admins = DefaultAdmins
    /\ Len(load_admins) >= 1

\* The last administrator was deleted and the load yields no account.
C16_Witness ==
    /\ load_admins = <<>>
    /\ \E u \in Users : reply[u] = "admin_deleted"

\* C17 as stated: a username comes to have an account only by the commit
\* of an add-administrator dialog for that name; in particular a
\* permission-matrix update for a username without an account leaves the
\* accounts as they are.
C17_AccountsOnlyByDialog ==
    [][\A n \in {admins'[i].username : i \in 1..Len(admins')} \ get_admin_names :
          \E u \in Users :
              /\ sess[u].mode = MODE_ADMIN_NEW_PIN
              /\ sess[u].new_admin_name = n
              /\ sess'[u].mode = MODE_NONE]_vars

\* The default account was deleted and came back, behind the account bob,
\* with the PIN 1234 and a permission entry.
C17_Witness ==
    /\ Len(admins) = 2
    /\ admins[2].username = ROOT_ADMIN
    /\ admins[2].pin = <<"1", "2", "3", "4">>
    /\ admins[2].per_field # EmptyMap

\* C18 as stated: every step leaves the lines of the activity log as a
\* prefix of the log; a number committed as current reading appends
\* exactly one update_reading line with amount 0, a number committed as
\* paid exactly one pay line whose amount is that number, and a text that
\* is no number, or a value for a record that is not there, appends
\* nothing.
C18_LogAppendOnly ==
    [][/\ Len(logs') >= Len(logs)
       /\ SubSeq(logs', 1, Len(logs)) = logs
       /\ \A u \in Users, t \in ValueTexts :
            handle_value_input(u, t)
            => LET f == ParseFloat(t)
               IN  IF f.k = "num" /\ Awaiting(u, "currReading")
                   THEN /\ Len(logs') = Len(logs) + 1
                        /\ logs'[Len(logs')].action = "update_reading"
                        /\ logs'[Len(logs')].amount = [k |-> "num", v |-> 0]
                   ELSE IF f.k = "num" /\ Awaiting(u, "paid")
                   THEN /\ Len(logs') = Len(logs) + 1
                        /\ logs'[Len(logs')].action = "pay"
                        /\ logs'[Len(logs')].amount = [k |-> "num", v |-> f.v]
                   ELSE IF f.k # "num" \/ sess[u].selected_index \notin Indices(Store)
                   THEN logs' = logs
                   ELSE TRUE]_vars

\* The log holds the line of a reading that was committed and, after it,
\* a pay line for the text nan.
C18_Witness ==
    /\ Len(logs) = 2
    /\ logs[1].action = "update_reading" /\ logs[1].amount.k = "num"
    /\ logs[2].action = "pay" /\ logs[2].amount.k = "nan"

\* C19 as stated: for every record and unit price the recomputed derived
\* fields are those of the stepwise reference: consumption = round(max(curr
\* - prev, 0)), consumptionValue = round(consumption x price) from the
\* rounded consumption, total = round(arrears + consumptionValue) from the
\* rounded consumptionValue, remaining = round(total - paid) from the
\* rounded total.
C19_StepwiseReference ==
    \A i \in 1..Len(file), p \in UnitPrices :
        LET r      == file[i]
            c      == recompute_row_priced(r, p)
            cons   == IntRound(Max(r.currReading - r.prevReading, 0))
            cval   == IntRound(cons * p)
            total  == IntRound(r.arrears + cval)
            remain == IntRound(total - r.paid)
        IN  /\ c.consumption = cons
            /\ c.consumptionValue = cval
            /\ c.total = total
            /\ c.remaining = remain

\* The record with readings 0 and 0.5 was displayed: its consumption is 0
\* and its consumption value 350.
C19_Witness ==
    /\ reply["u1"] = "record"
    /\ file[1].prevReading = 0 /\ file[1].currReading = 1
    /\ file[1].consumption = 0
    /\ file[1].consumptionValue = Num(350)

\* C20: recomputing a recomputed record changes nothing, for every record
\* and every unit price.
C20_Idempotent ==
    \A i \in 1..Len(file), p \in UnitPrices :
        recompute_row_priced(recompute_row_priced(file[i], p), p)
            = recompute_row_priced(file[i], p)

\* A record with arrears, a fractional consumption and stale derived cells
\* was displayed, and a second recomputation leaves it as it is.
C20_Witness ==
    /\ reply["u1"] = "record"
    /\ file[1].arrears = Num(60)
    /\ file[1].prevReading = 1 /\ file[1].currReading = Num(10)
    /\ file[1].total = Num(6710)
    /\ recompute_row(file[1]) = file[1]

\* C21: recomputing a record leaves its previous and current reading, its
\* arrears, its paid amount and its text fields as they are, and the four
\* derived fields it writes are the same whatever the derived fields held
\* before.
C21_RecomputeFrame ==
    \A i \in 1..Len(file), p \in UnitPrices :
        LET r == file[i]
            c == recompute_row_priced(r, p)
        IN  /\ c.prevReading = r.prevReading /\ c.currReading = r.currReading
            /\ c.arrears = r.arrears /\ c.paid = r.paid
            /\ c.name = r.name /\ c.phone = r.phone /\ c.meterId = r.meterId
            /\ \A s1, s2, s3, s4 \in {0, Num(7), r.total + 1} :
                 recompute_row_priced(
                     [r EXCEPT !.consumption = s1, !.consumptionValue = s2,
                               !.total = s3, !.remaining = s4], p) = c

\* A record that was paid 60 on a consumption of 1.5 was displayed: the
\* derived fields are the recomputed ones and the paid amount is kept.
C21_Witness ==
    /\ reply["u1"] = "record"
    /\ file[1].prevReading = 0 /\ file[1].currReading = 3
    /\ file[1].arrears = 1 /\ file[1].paid = Num(60)
    /\ file[1].consumption = Num(2) /\ file[1].consumptionValue = Num(1050)

C23_LeadingZeroQuery ==
    \A i \in 1..Len(Store), f \in TEXT_COLS :
        Store[i][f] = <<"5", "0", "1", "2", "3", "4", "5", "6", "7", ".", "0">>
        => \E k \in DOMAIN find_row_indices(Store, f,
                     <<"0", "5", "0", "1", "2", "3", "4", "5", "6", "7">>) :
               find_row_indices(Store, f,
                     <<"0", "5", "0", "1", "2", "3", "4", "5", "6", "7">>)[k] = i - 1

\* Both records hold 501234567.0 and a lookup by meter number was
\* answered with "no match".
C23_Witness ==
    /\ Store[1].meterId = <<"5", "0", "1", "2", "3", "4", "5", "6", "7", ".", "0">>
    /\ Store[2].meterId = Store[1].meterId
    /\ sess["u1"].mode = MODE_SEARCH_METER
    /\ reply["u1"] = "no_match"

\* C24 as stated: the lookup returns, in record order and once each,
\* exactly the indices whose value contains the normalised query, or whose
\* digits contain the non-empty digits of the query, or that equal the
\* query once a trailing ".0" is cut off both.
C24_HitsAsStated ==
    \A f \in TEXT_COLS, q \in MatchQueries :
        LET cut(t) == IF EndsWith(Strip(t), <<".", "0">>)
                      THEN SubSeq(Strip(t), 1, Len(Strip(t)) - 2) ELSE Strip(t)
            hit(v) == \/ IsSubstring(normalize_for_match(q), normalize_for_match(v))
                      \/ /\ digits_only(q) # <<>>
                         /\ IsSubstring(digits_only(q), digits_only(v))
                      \/ cut(v) = cut(q)
        IN  find_row_indices(Store, f, q)
              = SelectSeq([i \in 1..Len(Store) |-> i - 1],
                          LAMBDA i : hit(Store[i + 1][f]))

\* C24: the lookup returns, in record order and once each, exactly the
\* indices whose normalised value contains the non-empty normalised query,
\* or whose digits contain the non-empty digits of the query, or that
\* equal the query once a trailing ".0" is cut off and the number before
\* it is written without leading zeros.
C24_Hits ==
    \A f \in TEXT_COLS, q \in MatchQueries :
        LET cut(t) == IF EndsWith(Strip(t), <<".", "0">>)
                         /\ AllDigits(SubSeq(Strip(t), 1, Len(Strip(t)) - 2))
                         /\ Len(Strip(t)) > 2
                      THEN DecStr(DecVal(SubSeq(Strip(t), 1, Len(Strip(t)) - 2)))
                      ELSE Strip(t)
            hit(v) == \/ /\ normalize_for_match(q) # <<>>
                         /\ IsSubstring(normalize_for_match(q), normalize_for_match(v))
                      \/ /\ digits_only(q) # <<>>
                         /\ IsSubstring(digits_only(q), digits_only(v))
                      \/ cut(v) = cut(q)
        IN  find_row_indices(Store, f, q)
              = SelectSeq([i \in 1..Len(Store) |-> i - 1],
                          LAMBDA i : hit(Store[i + 1][f]))

\* The meter number 7 was looked up as 07.0 and the first record, found by
\* that rule alone, is displayed; the second record holds 12.
C24_Witness ==
    /\ Store[1].meterId = <<"7">> /\ Store[2].meterId = <<"1", "2">>
    /\ sess["u1"].mode = MODE_SEARCH_METER
    /\ sess["u1"].selected_index = 0
    /\ reply["u1"] = "record"

\* C25 as stated: for the filter of the session, once it is complete, the
\* report keeps a line of the log exactly when the filter is "all", or the
\* day of the line is the day of the filter, or lies between start and end,
\* both included; every user with a line kept appears once, with the
\* number of its lines kept and the sum of their amounts; and when no line
\* is kept the outcome is the notice that there is no data.
C25_Summary ==
    \A u \in Users :
        LET filt == sess[u].report_filter
            ok   == CASE filt.type = "day" -> ParseDate(filt.day) > 0
                      [] filt.type = "range" ->
                            /\ "end" \in DOMAIN filt
                            /\ ParseDate(filt.start) > 0
                            /\ ParseDate(filt.end) > 0
                      [] OTHER -> filt.type = "all"
            kept == {i \in 1..Len(logs) :
                       \/ filt.type = "all"
                       \/ /\ filt.type = "day"
                          /\ ParseDate(logs[i].date) = ParseDate(filt.day)
                       \/ /\ filt.type = "range"
                          /\ ParseDate(filt.start) <= ParseDate(logs[i].date)
                          /\ ParseDate(logs[i].date) <= ParseDate(filt.end)}
            out  == generate_and_send_report(logs, filt)
        IN  ok =>
              IF kept = {} THEN out.k \in {"no_data", "no_log"}
              ELSE /\ out.k = "report"
                   /\ DOMAIN out.summary = {logs[i].user : i \in kept}
                   /\ \A w \in DOMAIN out.summary :
                        /\ out.summary[w].count
                             = Cardinality({i \in kept : logs[i].user = w})
                        /\ out.summary[w].total
                             = SumAmounts(logs, {i \in kept : logs[i].user = w})

\* The log has a line for the subscriber "a,b" after a line for "ali"; a
\* report over the whole log was asked for, the query was answered and
\* nothing was sent.
C25_Witness ==
    /\ Len(logs) = 2
    /\ logs[1].subscriber = <<"a", "l", "i">>
    /\ logs[2].subscriber = <<"a", ",", "b">>
    /\ sess["u1"].report_filter = [type |-> "all"]
    /\ sess["u1"].mode = MODE_REPORT_CHOOSE_FMT
    /\ reply["u1"] = "generating"

\* C26: the load, change and save of a handler is one step, whatever the
\* other session does between the steps of this one.  A step changes at
\* most the record selected by a session that awaited a value and now
\* completes, keeps every other record as it is and removes none; an
\* append keeps every record there was.  So a payment that is the last
\* logged operation on its meter is the paid value of that record, however
\* many operations on other records were committed or appended after it.
C26_NoLostUpdate ==
    /\ [](\A k \in 1..Len(logs) :
            (/\ logs[k].action = "pay"
             /\ \A j \in (k + 1)..Len(logs) : logs[j].meter # logs[k].meter)
            => \A i \in 1..Len(Store) :
                  Store[i].meterId = logs[k].meter
                  => Store[i].paid = logs[k].amount.v)
    /\ [][file' # file =>
          /\ Len(StoreAfter) >= Len(Store)
          /\ \A i \in 1..Len(Store) :
                StoreAfter[i] # Store[i]
                => /\ Len(StoreAfter) = Len(Store)
                   /\ \A j \in 1..Len(Store) : j # i => StoreAfter[j] = Store[j]
                   /\ \E u \in Users :
                         /\ sess[u].mode = MODE_AWAIT_VALUE
                         /\ sess[u].selected_index = i - 1
                         /\ sess'[u].mode = MODE_NONE]_vars

\* The first user committed the reading 80 on meter 12, the second user
\* then paid 60 on meter 13 and a fourth subscriber was appended: all three
\* are in the workbook.
C26_Witness ==
    /\ Len(logs) = 2
    /\ logs[1].user = ActingUser("u1") /\ logs[1].action = "update_reading"
    /\ logs[2].user = ActingUser("u2") /\ logs[2].action = "pay"
    /\ Len(Store) = 4
    /\ Store[1].currReading = Num(80)
    /\ Store[2].paid = Num(60)
    /\ Store[4].meterId = <<"3", "1">>

\* C27: the roll-forward conserves the debt.  When a whole number v is
\* committed as the current reading of a record whose current reading c0
\* and whose remaining m0 are whole numbers, the new remaining is
\* m0 + UNIT_PRICE * max(v - c0, 0); so committing the reading the record
\* already has leaves the remaining as it is.
C27_DebtConserved ==
    [][\A u \in Users, t \in ValueTexts :
          LET r0 == RowAt(Store, sess[u].selected_index)
              r1 == RowAt(StoreAfter, sess[u].selected_index)
              v  == ParseFloat(t).v
          IN  (/\ Awaiting(u, "currReading")
               /\ ParseFloat(t).k = "num"
               /\ v % 2 = 0 /\ r0.currReading % 2 = 0 /\ r0.remaining % 2 = 0
               /\ handle_value_input(u, t))
              => /\ r1.remaining
                      = r0.remaining + UNIT_PRICE * Max(v - r0.currReading, 0)
                 /\ (v = r0.currReading => r1.remaining = r0.remaining)]_vars

\* The reading 80 was committed twice in a row on the record of ali: the
\* second commit found the current reading 80 and left the remaining of the
\* first, 27970 + 21000.
C27_Witness ==
    /\ Len(logs) = 2
    /\ logs[1].action = "update_reading" /\ logs[2].action = "update_reading"
    /\ Store[1].prevReading = Num(80) /\ Store[1].currReading = Num(80)
    /\ Store[1].arrears = Num(48970) /\ Store[1].paid = 0
    /\ Store[1].remaining = Num(48970)

\* C28: the roll-forward takes the values the record has when the value is
\* committed, not the ones it had when it was selected.  When the two
\* users have each committed a reading on meter 12 and nothing else was
\* committed, the record is the roll-forward of the second reading applied
\* to the roll-forward of the first applied to the record as it was: the
\* previous reading is the first reading, the arrears are the remaining
\* the first commit left, and paid is 0.
C28_CommitTimeValues ==
    (/\ Len(logs) = 2
     /\ logs[1].user # logs[2].user
     /\ \A k \in 1..2 : /\ logs[k].action = "update_reading"
                        /\ logs[k].meter = <<"1", "2">>)
    => LET r0    == load_df(SeedFile)[1]
           r2    == Store[1]
           a     == ParseFloat(CHOOSE t \in TwoTexts[logs[1].user] : TRUE).v
           b     == ParseFloat(CHOOSE t \in TwoTexts[logs[2].user] : TRUE).v
           first == recompute_row(RollForward(r0, a))
       IN  /\ r2 = recompute_row(RollForward(first, b))
           /\ r2.prevReading = a
           /\ r2.currReading = b
           /\ r2.arrears = first.remaining
           /\ r2.paid = 0

\* Both users selected meter 12 for a reading; the first committed 80 and
\* then the second committed 60: previous reading 80, current reading 60,
\* arrears 48970 as the first commit left them.
C28_Witness ==
    /\ Len(logs) = 2
    /\ logs[1].user = ActingUser("u1") /\ logs[2].user = ActingUser("u2")
    /\ logs[1].action = "update_reading" /\ logs[2].action = "update_reading"
    /\ logs[1].meter = <<"1", "2">> /\ logs[2].meter = <<"1", "2">>
    /\ Store[1].prevReading = Num(80) /\ Store[1].currReading = Num(60)
    /\ Store[1].arrears = Num(48970) /\ Store[1].paid = 0
    /\ Store[1].remaining = Num(48970)

C30_SelectionFixedWhileAwaiting ==
    [][\A u \in Users :
          (/\ sess[u].mode = MODE_AWAIT_VALUE
           /\ sess'[u].mode = MODE_AWAIT_VALUE)
          => sess'[u].selected_index = sess[u].selected_index]_vars

\* A value is awaited and the last answer is the display of a record: a
\* button of the pick keyboard was pressed during the await.
C30_Witness ==
    /\ sess["u1"].mode = MODE_AWAIT_VALUE
    /\ sess["u1"].edit_field = "currReading"
    /\ sess["u1"].selected_index = 1
    /\ picks["u1"] = {0, 1}
    /\ reply["u1"] = "record"

\* C31: a payment a that is committed becomes the paid value of the
\* record, in place of the one it had and not added to it; the previous
\* reading, the current reading, the arrears and the text columns of the
\* record stay as they were, every other record stays as it was, and the
\* remaining is the total less a.  So of two payments in a row the second
\* is the paid value.
C31_PaymentOverwrites ==
    [][\A u \in Users, t \in ValueTexts :
          LET idx == sess[u].selected_index
              r0  == RowAt(Store, idx)
              r1  == RowAt(StoreAfter, idx)
              a   == ParseFloat(t).v
          IN  (/\ Awaiting(u, "paid")
               /\ ParseFloat(t).k = "num"
               /\ handle_value_input(u, t))
              => /\ r1.paid = a
                 /\ r1.prevReading = r0.prevReading
                 /\ r1.currReading = r0.currReading
                 /\ r1.arrears = r0.arrears
                 /\ r1.name = r0.name /\ r1.phone = r0.phone
                 /\ r1.meterId = r0.meterId
                 /\ r1.remaining = r1.total - a
                 /\ Len(StoreAfter) = Len(Store)
                 /\ \A j \in Indices(Store) :
                       j # idx => RowAt(StoreAfter, j) = RowAt(Store, j)]_vars

\* Two payments in a row on the record of ali, which had paid 30: 80 and
\* then 0.5.  The paid value is 0.5 and the remaining is the total less
\* 0.5.
C31_Witness ==
    /\ Len(logs) = 2
    /\ logs[1].action = "pay" /\ logs[1].amount.v = Num(80)
    /\ logs[2].action = "pay" /\ logs[2].amount.v = 1
    /\ logs[1].meter = <<"1", "2">> /\ logs[2].meter = <<"1", "2">>
    /\ Store[1].paid = 1
    /\ Store[1].prevReading = Num(10) /\ Store[1].currReading = Num(50)
    /\ Store[1].arrears = 0
    /\ Store[1].total = Num(28000)
    /\ Store[1].remaining = Num(28000) - 1

\* C32 as stated: in every mode, the report date modes included, a text
\* message that is the label of the payment button starts the payment
\* lookup and is not taken as input of the dialog in progress: the mode
\* becomes the payment lookup, the lookup keyboard is the answer and the
\* report filter stays as it was.
C32_LabelDispatched ==
    [][\A u \in Users :
          (MenuLookup(u, {"pay"}) \/ text_date_router(u, "pay"))
          => /\ sess'[u].mode = ModeMenu["pay"]
             /\ reply'[u] = "choose_lookup"
             /\ sess'[u].report_filter = sess[u].report_filter]_vars

\* The label of the payment button was sent while the day of a report was
\* awaited: it is the day of the report filter and the format of the
\* report is asked for.
C32_Witness ==
    /\ sess["u1"].report_filter = [type |-> "day", day |-> "pay"]
    /\ sess["u1"].mode = MODE_REPORT_CHOOSE_FMT
    /\ reply["u1"] = "choose_format"

====
